---- MODULE Spec2Model ----
(***************************************************************************)
(* Model of AirtableConnector (src/src/index.ts): the polling pipeline     *)
(* onInterval = fetch -> diff -> reconcile (debounce) -> dispatch, the     *)
(* subscription registry filled by on(), and the two persisted values      *)
(* (last snapshot, pending modifications).                                 *)
(***************************************************************************)
EXTENDS Integers, Sequences, FiniteSets, TLC

(* ------------------------------ bounds --------------------------------- *)

\* Runs of onInterval explored.
MaxTicks == 3
\* Edits made to the remote base by its users.
MaxEdits == 2
\* Subscriptions held by the registry.
MaxSubs == 2

(* ----------------------------- universe -------------------------------- *)

Tables == {"T1", "T2"}

\* Record ids, in the order the remote lists them (the order of the pages).
RecOrder == <<"recA", "recB", "recC">>

RecIds == {RecOrder[i] : i \in DOMAIN RecOrder}

\* Record ids the users of the base write to (create, or change the fields of).
WrittenIds(table) == IF table = "T1" THEN {"recA", "recB"} ELSE {}

\* Field-maps: ordered lists of <<name, value>> pairs, as a JS object holds them.
FieldsX == << <<"Name", "x">> >>

FieldsY == << <<"Name", "y">> >>

FieldMaps == {FieldsX, FieldsY}

\* Mutant of EventTypes: on() lets a fourth type through.
EventTypesWithRenamed ==
  {"RecordAdded", "RecordModified", "RecordDeleted", "RecordRenamed"}

EventTypes == {"RecordAdded", "RecordModified", "RecordDeleted"}

\* The calls of on() explored, as <<type, table, fireWhileTyping, eventId>>:
\* fireWhileTyping is "unset" when not given, eventId is "" when not given, and
\* "RecordRenamed" is a type on() does not know.
OnInputs ==
  { <<"RecordAdded",    "T1", "unset", "">>,
    <<"RecordModified", "T1", "unset", "">>,
    <<"RecordModified", "T1", "true",  "e1">>,
    <<"RecordDeleted",  "T1", "unset", "">>,
    <<"RecordDeleted",  "T2", "true",  "">>,
    <<"RecordRenamed",  "T1", "unset", "">> }

\* Records a failing read has put into its table before the request that fails.
FailAfter == {0, 1}

ConnectorId == "conn"

(* ------------------------------ values --------------------------------- *)

\* A value of the store, or a local, that may be undefined.
Undefined == [defined |-> FALSE, val |-> <<>>]

Some(v) == [defined |-> TRUE, val |-> v]

\* {}: the object with no key.
EmptyObject == <<>>

SeqToSet(s) == {s[i] : i \in DOMAIN s}

\* The members of a set of record ids, in listing order.
IdsInOrder(S) == SelectSeq(RecOrder, LAMBDA r : r \in S)

\* Object.values(o) of a table object.
ObjectValues(o) ==
  LET ids == IdsInOrder(DOMAIN o)
  IN  [i \in DOMAIN ids |-> o[ids[i]]]

\* JSON.stringify of a field-map: the names and values in the object's order.
Stringify(fields) ==
  [k \in 1..(2 * Len(fields)) |-> fields[(k + 1) \div 2][2 - (k % 2)]]

\* a === b on two record objects: the same object. Every fetch builds new
\* objects, so an object is known by its id, its fields and the run that read it.
StrictEquals(a, b) == a = b

(* ------------------------------- state --------------------------------- *)

VARIABLES
  registry,             \* eventManager.eventConfigurationSet, in insertion order
  remote,               \* the Airtable base: table -> (record id -> field-map)
  storedObjects,        \* store[AIRTABLE_STORAGE_KEY]
  storedModifications,  \* store[AIRTABLE_STORAGE_KEY_HANDLE_MULTI_UPDATES]
  modificationsInStore, \* the private flag of the connector
  pc,                   \* where the run of onInterval stands
  inFlight,             \* runs of onInterval started and not yet returned
  tick,                 \* runs started so far
  edits,                \* edits made to the remote so far
  events,               \* getAllBaseRecords: the tables of the subscriptions read
  fetchIdx,             \* getAllBaseRecords: next entry of events
  objects,              \* getAllBaseRecords: the snapshot being built
  requested,            \* tables the run asked the remote for
  failed,               \* tables whose read failed in the run
  oldObjects,           \* onInterval: the snapshot store.update returned as old
  newObjects,           \* onInterval: the snapshot store.update returned as new
  diff,                 \* onInterval: diffTableEntries(oldObjects, newObjects)
  tables,               \* onInterval: getTables(), in Set order
  updatedModifications, \* onInterval: the settled modifications
  dIdx,                 \* onInterval: next entry of tables to dispatch
  log,                  \* handler invocations of the run, in order
  prevModifications     \* diff.modifications of the run before this one

vars ==
  <<registry, remote, storedObjects, storedModifications, modificationsInStore,
    pc, inFlight, tick, edits, events, fetchIdx, objects, requested, failed,
    oldObjects, newObjects, diff, tables, updatedModifications, dIdx, log,
    prevModifications>>

storeVars == <<storedObjects, storedModifications, modificationsInStore>>

fetchVars == <<events, fetchIdx, objects, requested, failed>>

runVars == <<oldObjects, newObjects, diff, tables, updatedModifications, dIdx>>

EmptyDiff ==
  [changeCount |-> 0, additions |-> EmptyObject, modifications |-> EmptyObject,
   removals |-> EmptyObject]

(* -------------------------- the registry ------------------------------- *)

\* The id on() gives a subscription when the caller passes none.
DefaultEventId(options) ==
  "AIRTABLE/" \o options.type \o "/" \o options.table \o "/" \o ConnectorId

\* options.fireWhileTyping after on() has normalised it.
NormalisedFlag(flag) == flag = "true"

\* eventManager.addEvent: the registry is an object keyed by id, so a known id
\* is overwritten in place and a new one is appended.
addEvent(reg, options, eventId) ==
  LET ec == [id |-> eventId, options |-> options]
  IN  IF \E i \in DOMAIN reg : reg[i].id = eventId
      THEN [i \in DOMAIN reg |-> IF reg[i].id = eventId THEN ec ELSE reg[i]]
      ELSE Append(reg, ec)

\* Mutant of getTables: a table not seen before is put first instead of last.
getTablesNewFirst(reg) ==
  LET RECURSIVE Go(_, _)
      Go(i, acc) ==
        IF i > Len(reg) THEN acc
        ELSE Go(i + 1, IF reg[i].options.table \in SeqToSet(acc)
                       THEN acc
                       ELSE <<reg[i].options.table>> \o acc)
  IN  Go(1, <<>>)

\* getTables(): the tables of the subscriptions, each once, in first-seen order.
getTables(reg) ==
  LET RECURSIVE Go(_, _)
      Go(i, acc) ==
        IF i > Len(reg) THEN acc
        ELSE Go(i + 1, IF reg[i].options.table \in SeqToSet(acc)
                       THEN acc
                       ELSE Append(acc, reg[i].options.table))
  IN  Go(1, <<>>)

\* Mutant of FetchList: every table of the base is read, subscribed or not.
FetchListEveryTable(reg) == <<"T1", "T2">>

\* getAllBaseRecords: the table of every subscription, one entry per subscription.
FetchList(reg) == [i \in DOMAIN reg |-> reg[i].options.table]

(* ----------------------------- the diff -------------------------------- *)

\* Mutant of likelyTheSameObject: the two objects are compared, not their fields.
likelyTheSameObjectByReference(o1, o2) == StrictEquals(o1, o2)

likelyTheSameObject(o1, o2) == Stringify(o1.fields) = Stringify(o2.fields)

\* Mutant of HasOldTable: an old table without records counts as no old table.
HasOldTableWithRecords(old, table) ==
  old.defined /\ table \in DOMAIN old.val /\ old.val[table] # EmptyObject

\* The negation of the test that skips a table: there is an old table to compare.
HasOldTable(old, table) == old.defined /\ table \in DOMAIN old.val

AdditionsOf(oldT, newT) ==
  [id \in {i \in DOMAIN newT : i \notin DOMAIN oldT} |-> newT[id]]

ModificationsOf(oldT, newT) ==
  [id \in {i \in DOMAIN newT : i \in DOMAIN oldT /\ ~likelyTheSameObject(newT[i], oldT[i])}
     |-> newT[id]]

\* Mutant of RemovalsOf: the test that the id is not in the new table is left out.
RemovalsOfEveryOld(oldT, newT) ==
  [id \in DOMAIN oldT |-> oldT[id]]

RemovalsOf(oldT, newT) ==
  [id \in {i \in DOMAIN oldT : i \notin DOMAIN newT} |-> oldT[id]]

\* Mutant of diffTableEntries: a table the old snapshot does not hold is
\* compared with an empty old table instead of being skipped.
diffTableEntriesNoSkip(old, new) ==
  LET OldT(t) == IF HasOldTable(old, t) THEN old.val[t] ELSE EmptyObject
  IN  [changeCount |-> 0,
       additions |-> [t \in DOMAIN new |-> AdditionsOf(OldT(t), new[t])],
       modifications |-> [t \in DOMAIN new |-> ModificationsOf(OldT(t), new[t])],
       removals |-> [t \in DOMAIN new |-> RemovalsOf(OldT(t), new[t])]]

diffTableEntries(old, new) ==
  LET additions ==
        [t \in DOMAIN new |->
           IF HasOldTable(old, t) THEN AdditionsOf(old.val[t], new[t]) ELSE EmptyObject]
      modifications ==
        [t \in DOMAIN new |->
           IF HasOldTable(old, t) THEN ModificationsOf(old.val[t], new[t]) ELSE EmptyObject]
      removals ==
        [t \in DOMAIN new |->
           IF HasOldTable(old, t) THEN RemovalsOf(old.val[t], new[t]) ELSE EmptyObject]
      RECURSIVE Count(_, _)
      Count(m, ts) ==
        IF ts = {} THEN 0
        ELSE LET t == CHOOSE x \in ts : TRUE
             IN  Cardinality(DOMAIN m[t]) + Count(m, ts \ {t})
  IN  [changeCount |-> Count(additions, DOMAIN new) + Count(modifications, DOMAIN new)
                         + Count(removals, DOMAIN new),
       additions |-> additions,
       modifications |-> modifications,
       removals |-> removals]

(* --------------------------- the debounce ------------------------------ *)

\* modificationsInLastInterval[table], set to {} when the store has none.
LastOf(last, table) == IF table \in DOMAIN last THEN last[table] ELSE EmptyObject

\* Mutant of Completed: the test of the id is left out, so that a pending id is
\* completed only when the table has no modifications object.
CompletedTableOnly(modifications, table, id) ==
  table \notin DOMAIN modifications

\* First loop: a pending id this run's modifications do not hold is completed.
Completed(modifications, table, id) ==
  table \notin DOMAIN modifications \/ id \notin DOMAIN modifications[table]

\* Mutant of Postponed: the comparison is inverted, so that a record that
\* changed again is fired and an unchanged one is postponed.
PostponedInverted(lastT, modT, id) ==
  id \notin DOMAIN lastT \/ StrictEquals(modT[id], lastT[id])

\* Second loop: a modified id is postponed when it is new to the store or when
\* its record is not the stored one; it is fired when the two are the same.
Postponed(lastT, modT, id) ==
  id \notin DOMAIN lastT \/ ~StrictEquals(modT[id], lastT[id])

\* The second loop reads Object.keys(modifications[table]): a TypeError when
\* modifications has no entry for a table of getTables().
ReconcileThrows(modifications, tabs) ==
  \E i \in DOMAIN tabs : tabs[i] \notin DOMAIN modifications

ToUpdateOf(lastT, modifications, table) ==
  LET fromLast == {id \in DOMAIN lastT : Completed(modifications, table, id)}
      fromNow  == {id \in DOMAIN modifications[table] :
                     ~Postponed(lastT, modifications[table], id)}
  IN  [id \in fromLast \cup fromNow |->
         IF id \in fromLast THEN lastT[id] ELSE modifications[table][id]]

\* Mutant of ForNextOf: only an id new to the store is kept for the next run; an
\* id that was pending and changed again is left out.
ForNextOfNewOnly(lastT, modifications, table) ==
  [id \in {i \in DOMAIN modifications[table] : i \notin DOMAIN lastT}
     |-> modifications[table][id]]

ForNextOf(lastT, modifications, table) ==
  [id \in {i \in DOMAIN modifications[table] : Postponed(lastT, modifications[table], i)}
     |-> modifications[table][id]]

\* getModificationsToUpdate after its first-time branch, for a run that does
\* not throw: what it returns and what it stores for the next run.
getModificationsToUpdate(modifications, last, tabs) ==
  [toUpdate |-> [t \in SeqToSet(tabs) |-> ToUpdateOf(LastOf(last, t), modifications, t)],
   forNext  |-> [t \in SeqToSet(tabs) |-> ForNextOf(LastOf(last, t), modifications, t)]]

(* --------------------------- the dispatch ------------------------------ *)

AddedFilter(ec, table) ==
  ec.options.type = "RecordAdded" /\ ec.options.table = table

SettledFilter(ec, table) ==
  /\ ec.options.type = "RecordModified"
  /\ ec.options.table = table
  /\ ~ec.options.fireWhileTyping

\* Mutant of RawFilter: the test of fireWhileTyping is left out.
RawFilterNoFlag(ec, table) ==
  ec.options.type = "RecordModified" /\ ec.options.table = table

RawFilter(ec, table) ==
  /\ ec.options.type = "RecordModified"
  /\ ec.options.table = table
  /\ ec.options.fireWhileTyping

\* Mutant of DeletedFilter: the test of the table is left out.
DeletedFilterAnyTable(ec, table) ==
  ec.options.type = "RecordDeleted"

DeletedFilter(ec, table) ==
  ec.options.type = "RecordDeleted" /\ ec.options.table = table

\* eventManager.fire(filter, records), ecs being the subscriptions the filter
\* accepts: each of them is handed every record, one invocation after the other.
Fire(ecs, records, group, table) ==
  LET m == Len(records)
  IN  [k \in 1..(Len(ecs) * m) |->
         [sub |-> ecs[((k - 1) \div m) + 1].id,
          group |-> group,
          table |-> table,
          record |-> records[((k - 1) % m) + 1]]]

\* The four fire calls of onInterval for one table, each made only when the
\* object it reads has an entry for the table.
DispatchOf(reg, table, d, updated) ==
  (IF table \in DOMAIN d.additions
   THEN Fire(SelectSeq(reg, LAMBDA ec : AddedFilter(ec, table)),
             ObjectValues(d.additions[table]), "added", table)
   ELSE <<>>)
  \o
  (IF table \in DOMAIN updated
   THEN Fire(SelectSeq(reg, LAMBDA ec : SettledFilter(ec, table)),
             ObjectValues(updated[table]), "settled", table)
   ELSE <<>>)
  \o
  (IF table \in DOMAIN d.modifications
   THEN Fire(SelectSeq(reg, LAMBDA ec : RawFilter(ec, table)),
             ObjectValues(d.modifications[table]), "raw", table)
   ELSE <<>>)
  \o
  (IF table \in DOMAIN d.removals
   THEN Fire(SelectSeq(reg, LAMBDA ec : DeletedFilter(ec, table)),
             ObjectValues(d.removals[table]), "deleted", table)
   ELSE <<>>)

(* ------------------------------ Init ----------------------------------- *)

\* The base as the connector finds it.
InitialRemote ==
  [t \in Tables |->
     IF t = "T1" THEN [id \in {"recA", "recB"} |-> FieldsX]
     ELSE [id \in {"recA"} |-> FieldsX]]

Init ==
  /\ registry = <<>>
  /\ remote = InitialRemote
  /\ storedObjects = Undefined
  /\ storedModifications = Undefined
  /\ modificationsInStore = FALSE
  /\ pc = "idle"
  /\ inFlight = 0
  /\ tick = 0
  /\ edits = 0
  /\ events = <<>>
  /\ fetchIdx = 1
  /\ objects = EmptyObject
  /\ requested = {}
  /\ failed = {}
  /\ oldObjects = Undefined
  /\ newObjects = EmptyObject
  /\ diff = EmptyDiff
  /\ tables = <<>>
  /\ updatedModifications = EmptyObject
  /\ dIdx = 1
  /\ log = <<>>
  /\ prevModifications = EmptyObject

(* ------------------------------ on() ----------------------------------- *)

\* on(options, handler, eventId): a wrong type throws before anything is
\* changed; otherwise the subscription is added under eventId or the default id.
on(type, table, flag, eventId) ==
  /\ IF type \notin EventTypes
     THEN UNCHANGED registry
     ELSE LET options == [type |-> type, table |-> table,
                          fireWhileTyping |-> NormalisedFlag(flag)]
              id == IF eventId = "" THEN DefaultEventId(options) ELSE eventId
          IN  /\ Len(addEvent(registry, options, id)) <= MaxSubs
              /\ registry' = addEvent(registry, options, id)
  /\ UNCHANGED <<remote, storeVars, pc, inFlight, tick, edits, fetchVars, runVars,
                 log, prevModifications>>

(* --------------------------- the remote base --------------------------- *)

\* A user of the base creates a record or changes the fields of one.
RemoteWrite(table, id, fields) ==
  /\ edits < MaxEdits
  /\ id \in WrittenIds(table)
  /\ id \in DOMAIN remote[table] => remote[table][id] # fields
  /\ remote' = [remote EXCEPT ![table] =
                  [i \in DOMAIN remote[table] \cup {id} |->
                     IF i = id THEN fields ELSE remote[table][i]]]
  /\ edits' = edits + 1
  /\ UNCHANGED <<registry, storeVars, pc, inFlight, tick, fetchVars, runVars, log,
                 prevModifications>>

\* A user of the base deletes a record.
RemoteDelete(table, id) ==
  /\ edits < MaxEdits
  /\ id \in DOMAIN remote[table]
  /\ remote' = [remote EXCEPT ![table] =
                  [i \in DOMAIN remote[table] \ {id} |-> remote[table][i]]]
  /\ edits' = edits + 1
  /\ UNCHANGED <<registry, storeVars, pc, inFlight, tick, fetchVars, runVars, log,
                 prevModifications>>

(* ---------------------------- onInterval ------------------------------- *)

\* Mutant of CanSchedule: the timer starts a run whether or not one is in flight.
CanScheduleAlways == TRUE

\* The scheduler starts a run only when none is in flight.
CanSchedule == inFlight = 0

\* A run starts: store.update calls getAllBaseRecords, which reads the registry.
StartTick ==
  /\ CanSchedule
  /\ tick < MaxTicks
  /\ pc' = "fetch"
  /\ inFlight' = inFlight + 1
  /\ tick' = tick + 1
  /\ events' = FetchList(registry)
  /\ fetchIdx' = 1
  /\ objects' = EmptyObject
  /\ requested' = {}
  /\ failed' = {}
  /\ UNCHANGED <<registry, remote, storeVars, edits, runVars, log,
                 prevModifications>>

\* The record objects a read of the given ids of a table builds.
RecordsRead(table, ids) ==
  [id \in ids |-> [id |-> id, fields |-> remote[table][id], ref |-> tick]]

\* objects[table] = {} and then every page of the table is read.
FetchTable ==
  /\ pc = "fetch"
  /\ fetchIdx <= Len(events)
  /\ LET table == events[fetchIdx]
     IN  /\ objects' = (table :> RecordsRead(table, DOMAIN remote[table])) @@ objects
         /\ requested' = requested \cup {table}
         /\ failed' = failed \ {table}
  /\ fetchIdx' = fetchIdx + 1
  /\ UNCHANGED <<registry, remote, storeVars, pc, inFlight, tick, edits, events,
                 runVars, log, prevModifications>>

\* objects[table] = {} and then a request for a page fails after `read` records
\* were put into objects[table]; the error is logged and the loop goes on.
\* At most one read fails in a run.
FetchTableFails(read) ==
  /\ pc = "fetch"
  /\ fetchIdx <= Len(events)
  /\ failed = {}
  /\ LET table == events[fetchIdx]
         ids   == IdsInOrder(DOMAIN remote[table])
     IN  /\ read <= Len(ids)
         /\ read < Len(ids) \/ Len(ids) = 0
         /\ objects' = (table :> RecordsRead(table, {ids[i] : i \in 1..read})) @@ objects
         /\ requested' = requested \cup {table}
         /\ failed' = failed \cup {table}
  /\ fetchIdx' = fetchIdx + 1
  /\ UNCHANGED <<registry, remote, storeVars, pc, inFlight, tick, edits, events,
                 runVars, log, prevModifications>>

\* Mutant of FinishFetch: the new snapshot is returned and not written.
FinishFetchNoWrite ==
  /\ pc = "fetch"
  /\ fetchIdx > Len(events)
  /\ oldObjects' = storedObjects
  /\ newObjects' = objects
  /\ diff' = diffTableEntries(storedObjects, objects)
  /\ tables' = getTables(registry)
  /\ pc' = "reconcile"
  /\ UNCHANGED <<registry, remote, storeVars, inFlight, tick, edits, fetchVars,
                 updatedModifications, dIdx, log, prevModifications>>

\* store.update resolves: the new snapshot is in the store, and onInterval
\* computes the diff and the tables before it awaits the debounce.
FinishFetch ==
  /\ pc = "fetch"
  /\ fetchIdx > Len(events)
  /\ storedObjects' = Some(objects)
  /\ oldObjects' = storedObjects
  /\ newObjects' = objects
  /\ diff' = diffTableEntries(storedObjects, objects)
  /\ tables' = getTables(registry)
  /\ pc' = "reconcile"
  /\ UNCHANGED <<registry, remote, storedModifications, modificationsInStore, inFlight,
                 tick, edits, fetchVars, updatedModifications, dIdx, log,
                 prevModifications>>

\* getModificationsToUpdate returns: the first call stores the modifications
\* and returns nothing; a later call reads the store, settles and stores.
Reconcile ==
  /\ pc = "reconcile"
  /\ IF ~modificationsInStore
     THEN /\ storedModifications' = Some(diff.modifications)
          /\ modificationsInStore' = TRUE
          /\ updatedModifications' = EmptyObject
     ELSE /\ ~ReconcileThrows(diff.modifications, tables)
          /\ LET r == getModificationsToUpdate(diff.modifications,
                                               storedModifications.val, tables)
             IN  /\ storedModifications' = Some(r.forNext)
                 /\ updatedModifications' = r.toUpdate
          /\ UNCHANGED modificationsInStore
  /\ pc' = "dispatch"
  /\ dIdx' = 1
  /\ UNCHANGED <<registry, remote, storedObjects, inFlight, tick, edits, fetchVars,
                 oldObjects, newObjects, diff, tables, log, prevModifications>>

\* One turn of the loop over tables: the four fire calls for the table.
DispatchTable ==
  /\ pc = "dispatch"
  /\ dIdx <= Len(tables)
  /\ log' = log \o DispatchOf(registry, tables[dIdx], diff, updatedModifications)
  /\ dIdx' = dIdx + 1
  /\ UNCHANGED <<registry, remote, storeVars, pc, inFlight, tick, edits, fetchVars,
                 oldObjects, newObjects, diff, tables, updatedModifications,
                 prevModifications>>

\* onInterval returns; its locals are gone.
FinishTick ==
  /\ pc = "dispatch"
  /\ dIdx > Len(tables)
  /\ pc' = "idle"
  /\ inFlight' = inFlight - 1
  /\ prevModifications' = diff.modifications
  /\ oldObjects' = Undefined
  /\ newObjects' = EmptyObject
  /\ diff' = EmptyDiff
  /\ tables' = <<>>
  /\ updatedModifications' = EmptyObject
  /\ dIdx' = 1
  /\ log' = <<>>
  /\ UNCHANGED <<registry, remote, storeVars, tick, edits, fetchVars>>

(* ------------------------- the specification --------------------------- *)

\* Subscriptions are registered between two runs.
Setup ==
  /\ pc = "idle"
  /\ \E in \in OnInputs : on(in[1], in[2], in[3], in[4])

\* The base is edited between two runs: what a run reads is what the edits
\* made before its read left, whenever they were made.
Edit ==
  /\ pc = "idle"
  /\ tick > 0
  /\ tick < MaxTicks
  /\ \E table \in Tables, id \in RecIds :
        \/ \E fields \in FieldMaps : RemoteWrite(table, id, fields)
        \/ RemoteDelete(table, id)

Next ==
  \/ Setup
  \/ Edit
  \/ StartTick
  \/ FetchTable
  \/ \E read \in FailAfter : FetchTableFails(read)
  \/ FinishFetch
  \/ Reconcile
  \/ DispatchTable
  \/ FinishTick

Spec == Init /\ [][Next]_vars

(* ------------------------ a restart of the process -------------------- *)

\* The process ends between two runs and a new one starts: the connector is
\* constructed again (modificationsInStore = false) and the application makes
\* its calls of on() again, so the registry is the one it was; the store is
\* persistent and keeps the snapshot and the pending modifications.
Restart ==
  /\ pc = "idle"
  /\ modificationsInStore
  /\ modificationsInStore' = FALSE
  /\ UNCHANGED <<registry, remote, storedObjects, storedModifications, pc, inFlight,
                 tick, edits, fetchVars, runVars, log, prevModifications>>

NextRestart ==
  \/ Next
  \/ Restart

SpecRestart == Init /\ [][NextRestart]_vars

(* ----------------- on() while a run is in flight ----------------------- *)

\* on() is called while the run awaits its reads: getAllBaseRecords has taken
\* its list of subscriptions (line 231) and getTables() is yet to be called.
LateSetup ==
  /\ pc = "fetch"
  /\ \E in \in OnInputs : on(in[1], in[2], in[3], in[4])

\* A later call of getModificationsToUpdate meets a table of getTables() that
\* modifications has no entry for: Object.keys(undefined) at line 146 throws
\* before line 163 writes the store, and the promise of onInterval is rejected.
ReconcileTypeError ==
  /\ pc = "reconcile"
  /\ modificationsInStore
  /\ ReconcileThrows(diff.modifications, tables)
  /\ pc' = "failed"
  /\ UNCHANGED <<registry, remote, storeVars, inFlight, tick, edits, fetchVars,
                 runVars, log, prevModifications>>

\* The rejected run is over: nothing was dispatched, its locals are gone.
RejectTick ==
  /\ pc = "failed"
  /\ pc' = "idle"
  /\ inFlight' = inFlight - 1
  /\ prevModifications' = diff.modifications
  /\ oldObjects' = Undefined
  /\ newObjects' = EmptyObject
  /\ diff' = EmptyDiff
  /\ tables' = <<>>
  /\ updatedModifications' = EmptyObject
  /\ dIdx' = 1
  /\ log' = <<>>
  /\ UNCHANGED <<registry, remote, storeVars, tick, edits, fetchVars>>

NextLate ==
  \/ Setup
  \/ LateSetup
  \/ Edit
  \/ StartTick
  \/ FetchTable
  \/ FinishFetch
  \/ Reconcile
  \/ ReconcileTypeError
  \/ RejectTick
  \/ DispatchTable
  \/ FinishTick

SpecLate == Init /\ [][NextLate]_vars

(* ------------------- the diff on arbitrary snapshots ------------------- *)

\* Table contents: any field-maps for any of the given ids.
TableObjects(ids) ==
  UNION {[S -> FieldMaps] : S \in SUBSET ids}

DiffRecords(tableObject, ref) ==
  [id \in DOMAIN tableObject |-> [id |-> id, fields |-> tableObject[id], ref |-> ref]]

\* Snapshots of a read: any tables, T1 over every record id and T2 over recA.
DiffSnapshots(ref) ==
  UNION {
    {[t \in TS |-> DiffRecords(IF t = "T1" THEN o1 ELSE o2, ref)] :
       o1 \in TableObjects(RecIds), o2 \in TableObjects({"recA"})} :
    TS \in SUBSET Tables}

InitDiff ==
  /\ registry = <<>>
  /\ remote = InitialRemote
  /\ storedObjects = Undefined
  /\ storedModifications = Undefined
  /\ modificationsInStore = FALSE
  /\ pc = "diff"
  /\ inFlight = 0
  /\ tick = 0
  /\ edits = 0
  /\ events = <<>>
  /\ fetchIdx = 1
  /\ objects = EmptyObject
  /\ requested = {}
  /\ failed = {}
  /\ oldObjects \in {Undefined} \cup {Some(o) : o \in DiffSnapshots(0)}
  /\ newObjects \in DiffSnapshots(1)
  /\ diff = EmptyDiff
  /\ tables = <<>>
  /\ updatedModifications = EmptyObject
  /\ dIdx = 1
  /\ log = <<>>
  /\ prevModifications = EmptyObject

\* const diff = this.diffTableEntries(oldObjects, newObjects)
ApplyDiff ==
  /\ pc = "diff"
  /\ diff' = diffTableEntries(oldObjects, newObjects)
  /\ pc' = "diffed"
  /\ UNCHANGED <<registry, remote, storeVars, inFlight, tick, edits, fetchVars,
                 oldObjects, newObjects, tables, updatedModifications, dIdx, log,
                 prevModifications>>

NextDiff == ApplyDiff

SpecDiff == InitDiff /\ [][NextDiff]_vars

(* ------------- the diff on field-maps listed in two orders ------------- *)

\* Field-maps of two fields: the same names and values, listed in two orders.
FieldsNameNotes == << <<"Name", "x">>, <<"Notes", "n">> >>

FieldsNotesName == << <<"Notes", "n">>, <<"Name", "x">> >>

OrderedFieldMaps == {FieldsX, FieldsNameNotes, FieldsNotesName}

OrderedTableObjects(ids) ==
  UNION {[S -> OrderedFieldMaps] : S \in SUBSET ids}

\* Two reads of T1, each holding any of recA and recB with any of the field-maps.
InitFieldOrder ==
  /\ registry = <<>>
  /\ remote = InitialRemote
  /\ storedObjects = Undefined
  /\ storedModifications = Undefined
  /\ modificationsInStore = FALSE
  /\ pc = "diff"
  /\ inFlight = 0
  /\ tick = 0
  /\ edits = 0
  /\ events = <<>>
  /\ fetchIdx = 1
  /\ objects = EmptyObject
  /\ requested = {}
  /\ failed = {}
  /\ \E o \in OrderedTableObjects({"recA", "recB"}) :
        oldObjects = Some([t \in {"T1"} |-> DiffRecords(o, 0)])
  /\ \E n \in OrderedTableObjects({"recA", "recB"}) :
        newObjects = [t \in {"T1"} |-> DiffRecords(n, 1)]
  /\ diff = EmptyDiff
  /\ tables = <<>>
  /\ updatedModifications = EmptyObject
  /\ dIdx = 1
  /\ log = <<>>
  /\ prevModifications = EmptyObject

SpecFieldOrder == InitFieldOrder /\ [][NextDiff]_vars

(* ---------------- the debounce on arbitrary modifications -------------- *)

\* The results of getTables() explored.
ReconcileTables == {<<"T1">>, <<"T1", "T2">>}

\* The objects that can stand for a table in a modifications object whose
\* records were read by the run ref: T1 over recA and recB, T2 over recA.
ModifiedRecords(t, ref) ==
  {DiffRecords(o, ref) :
     o \in TableObjects(IF t = "T1" THEN {"recA", "recB"} ELSE {"recA"})}

\* The modifications objects with an entry for each of the given tables.
ModificationsOver(ts, ref) ==
  {f \in [ts -> UNION {ModifiedRecords(t, ref) : t \in ts}] :
     \A t \in ts : f[t] \in ModifiedRecords(t, ref)}

\* modifiedCount of a diff that has the given modifications.
ModifiedCount(m) ==
  LET RECURSIVE Count(_)
      Count(ts) ==
        IF ts = {} THEN 0
        ELSE LET t == CHOOSE x \in ts : TRUE
             IN  Cardinality(DOMAIN m[t]) + Count(ts \ {t})
  IN  Count(DOMAIN m)

\* A later call of getModificationsToUpdate: any modifications of this run for
\* the tables of the registry, and in the store any modifications of the run
\* before, for all or some of these tables. prevModifications keeps what the
\* store held when the call was made.
InitReconcile ==
  /\ tables \in ReconcileTables
  /\ registry = [i \in DOMAIN tables |->
                   LET options == [type |-> "RecordModified", table |-> tables[i],
                                   fireWhileTyping |-> FALSE]
                   IN  [id |-> DefaultEventId(options), options |-> options]]
  /\ remote = InitialRemote
  /\ storedObjects = Undefined
  /\ prevModifications \in
       UNION {ModificationsOver(ts, 1) : ts \in SUBSET SeqToSet(tables)}
  /\ storedModifications = Some(prevModifications)
  /\ modificationsInStore = TRUE
  /\ pc = "reconcile"
  /\ inFlight = 1
  /\ tick = 2
  /\ edits = 0
  /\ events = <<>>
  /\ fetchIdx = 1
  /\ objects = EmptyObject
  /\ requested = {}
  /\ failed = {}
  /\ oldObjects = Undefined
  /\ newObjects = EmptyObject
  /\ \E m \in ModificationsOver(SeqToSet(tables), 2) :
        diff = [EmptyDiff EXCEPT !.modifications = m, !.changeCount = ModifiedCount(m)]
  /\ updatedModifications = EmptyObject
  /\ dIdx = 1
  /\ log = <<>>

NextReconcile == Reconcile

SpecReconcile == InitReconcile /\ [][NextReconcile]_vars

(* ------------------------------ claims --------------------------------- *)

\* The dispatch loop of the run has ended and onInterval has not returned yet.
DispatchDone == pc = "dispatch" /\ dIdx > Len(tables)

\* The handler invocations of the run made for a subscription and a record.
Delivered(sub, table, id) ==
  {k \in DOMAIN log : log[k].sub = sub /\ log[k].table = table /\ log[k].record.id = id}

IsModifiedIn(m, table, id) == table \in DOMAIN m /\ id \in DOMAIN m[table]

\* C1: a record modified in the run before this one and not modified in this
\* run gives every RecordModified subscription of its table that does not fire
\* while typing exactly one event in this run; a record that is modified in this
\* run, or was not modified in the run before, gives it none.
C1_SettledOneRunLater ==
  DispatchDone =>
    \A i \in DOMAIN registry :
      LET ec == registry[i]
          t  == ec.options.table
      IN  (ec.options.type = "RecordModified" /\ ~ec.options.fireWhileTyping) =>
            \A id \in RecIds :
              Cardinality(Delivered(ec.id, t, id)) =
                IF /\ IsModifiedIn(prevModifications, t, id)
                   /\ ~IsModifiedIn(diff.modifications, t, id)
                THEN 1 ELSE 0

\* C1 witness: a settled event was delivered for a record modified one run ago.
C1_Witness ==
  /\ DispatchDone
  /\ \E k \in DOMAIN log :
        /\ log[k].group = "settled"
        /\ IsModifiedIn(prevModifications, log[k].table, log[k].record.id)
        /\ ~IsModifiedIn(diff.modifications, log[k].table, log[k].record.id)

\* C2: a record that is in the raw modifications of a run gets no settled
\* event in that run, so a record that changes in each of N runs in a row gets
\* none in any of them.
C2_NoSettledWhileChanging ==
  \A k \in DOMAIN log :
    log[k].group = "settled" =>
      ~IsModifiedIn(diff.modifications, log[k].table, log[k].record.id)

\* C2 witness: a record modified in two runs in a row, on a table with a
\* subscription that waits for settled modifications, after the second dispatch.
C2_Witness ==
  /\ DispatchDone
  /\ \E i \in DOMAIN registry, id \in RecIds :
        /\ registry[i].options.type = "RecordModified"
        /\ ~registry[i].options.fireWhileTyping
        /\ IsModifiedIn(prevModifications, registry[i].options.table, id)
        /\ IsModifiedIn(diff.modifications, registry[i].options.table, id)
        /\ Delivered(registry[i].id, registry[i].options.table, id) = {}

\* C3: in a run, a RecordModified subscription that fires while typing gets one
\* raw event per record of its table's raw modifications and nothing else; one
\* that does not (the default) gets only the settled modifications of its table.
C3_RawAndSettledRouting ==
  DispatchDone =>
    \A i \in DOMAIN registry :
      LET ec   == registry[i]
          t    == ec.options.table
          mine == {k \in DOMAIN log : log[k].sub = ec.id}
      IN  ec.options.type = "RecordModified" =>
            IF ec.options.fireWhileTyping
            THEN /\ \A id \in RecIds :
                       Cardinality(Delivered(ec.id, t, id)) =
                         IF IsModifiedIn(diff.modifications, t, id) THEN 1 ELSE 0
                 /\ \A k \in mine :
                       /\ log[k].group = "raw"
                       /\ log[k].table = t
                       /\ log[k].record = diff.modifications[t][log[k].record.id]
            ELSE \A k \in mine :
                   /\ log[k].group = "settled"
                   /\ log[k].table = t
                   /\ IsModifiedIn(updatedModifications, t, log[k].record.id)
                   /\ log[k].record = updatedModifications[t][log[k].record.id]

\* C3 witness: a raw event is delivered for a record that was pending in the
\* store, while a subscription of the same table that waits gets nothing for it.
C3_Witness ==
  /\ DispatchDone
  /\ \E k \in DOMAIN log, i \in DOMAIN registry :
        /\ log[k].group = "raw"
        /\ IsModifiedIn(prevModifications, log[k].table, log[k].record.id)
        /\ registry[i].options.type = "RecordModified"
        /\ registry[i].options.table = log[k].table
        /\ ~registry[i].options.fireWhileTyping
        /\ Delivered(registry[i].id, log[k].table, log[k].record.id) = {}

\* The ids of a table of a snapshot.
IdsOf(snapshot, t) == DOMAIN snapshot[t]

\* C4: for a table both snapshots hold, additions are the ids only in new,
\* removals the ids only in old, modifications and the unchanged ids split the
\* ids in both, and the four sets are pairwise disjoint and cover old and new.
C4_DiffPartition ==
  pc = "diffed" =>
    \A t \in DOMAIN newObjects :
      (oldObjects.defined /\ t \in DOMAIN oldObjects.val) =>
        LET o == IdsOf(oldObjects.val, t)
            n == IdsOf(newObjects, t)
            A == DOMAIN diff.additions[t]
            M == DOMAIN diff.modifications[t]
            R == DOMAIN diff.removals[t]
            U == {id \in o \cap n :
                    newObjects[t][id].fields = oldObjects.val[t][id].fields}
        IN  /\ A = n \ o
            /\ R = o \ n
            /\ M \cup U = o \cap n
            /\ M \cap U = {}
            /\ A \cap M = {} /\ A \cap R = {} /\ M \cap R = {}
            /\ A \cap U = {} /\ R \cap U = {}
            /\ A \cup M \cup R \cup U = o \cup n

\* C4 witness: old {recA, recB}, new {recA, recC} with recA unchanged gives
\* removals {recB}, additions {recC} and no modification.
C4_Witness ==
  /\ pc = "diffed"
  /\ oldObjects.defined
  /\ "T1" \in DOMAIN oldObjects.val
  /\ "T1" \in DOMAIN newObjects
  /\ DOMAIN oldObjects.val["T1"] = {"recA", "recB"}
  /\ DOMAIN newObjects["T1"] = {"recA", "recC"}
  /\ oldObjects.val["T1"]["recA"].fields = newObjects["T1"]["recA"].fields
  /\ DOMAIN diff.removals["T1"] = {"recB"}
  /\ DOMAIN diff.additions["T1"] = {"recC"}
  /\ DOMAIN diff.modifications["T1"] = {}

\* The run found no old table to compare the table with.
NoOldTable(t) == ~oldObjects.defined \/ t \notin DOMAIN oldObjects.val

\* C5: when the old snapshot is absent or has no entry for a table, the run's
\* additions, modifications and removals of the table are empty and no handler
\* is invoked for the table.
C5_NoEventsOnFirstObservation ==
  pc \in {"reconcile", "dispatch"} =>
    \A t \in Tables :
      NoOldTable(t) =>
        /\ t \in DOMAIN newObjects =>
             /\ diff.additions[t] = EmptyObject
             /\ diff.modifications[t] = EmptyObject
             /\ diff.removals[t] = EmptyObject
        /\ \A k \in DOMAIN log : log[k].table # t

\* C5 witness: a table with records and a subscription is dispatched in a run
\* whose old snapshot has other tables and not this one.
C5_Witness ==
  /\ DispatchDone
  /\ oldObjects.defined
  /\ \E t \in SeqToSet(tables) :
        /\ t \notin DOMAIN oldObjects.val
        /\ DOMAIN oldObjects.val # {}
        /\ t \in DOMAIN newObjects
        /\ DOMAIN newObjects[t] # {}

\* The tables the registry holds a subscription for.
RegistryTables == {registry[i].options.table : i \in DOMAIN registry}

\* The place of the first subscription of a table in the registry.
FirstSeen(t) ==
  CHOOSE i \in DOMAIN registry :
    /\ registry[i].options.table = t
    /\ \A j \in 1..(i - 1) : registry[j].options.table # t

GroupRank(g) ==
  CASE g = "added" -> 1 [] g = "settled" -> 2 [] g = "raw" -> 3 [] g = "deleted" -> 4

\* C6: the invocations of a run are ordered by table, in the order the tables
\* first appear in the registry, and within a table by group: added, settled
\* modified, raw modified, deleted.
C6_DispatchOrder ==
  \A j, k \in DOMAIN log :
    j < k =>
      \/ FirstSeen(log[j].table) < FirstSeen(log[k].table)
      \/ /\ log[j].table = log[k].table
         /\ GroupRank(log[j].group) <= GroupRank(log[k].group)

\* C6 witness: T2 was registered before T1 and both tables have events in the
\* run: those of T2 come first.
C6_Witness ==
  /\ DispatchDone
  /\ Len(log) >= 2
  /\ log[1].table = "T2"
  /\ log[Len(log)].table = "T1"

\* C6, within a table: events of two groups of one table are in the log.
C6_WitnessGroups ==
  /\ DispatchDone
  /\ \E j, k \in DOMAIN log :
        /\ log[j].table = log[k].table
        /\ GroupRank(log[j].group) < GroupRank(log[k].group)

C8_FailedTableIsEmpty ==
  pc \in {"reconcile", "dispatch"} =>
    /\ \A t \in failed : newObjects[t] = EmptyObject
    /\ requested = SeqToSet(events)

\* C9: a run asks the remote only for tables that have a subscription, and its
\* snapshot has an entry for exactly those tables.
C9_FetchOnlySubscribed ==
  /\ pc # "idle" => requested \subseteq RegistryTables
  /\ pc \in {"reconcile", "dispatch"} =>
       /\ requested = RegistryTables
       /\ DOMAIN newObjects = RegistryTables
       /\ storedObjects.defined /\ DOMAIN storedObjects.val = RegistryTables

\* C9 witness: a later run of a connector with subscriptions that leaves out a
\* table of the base that has records and no subscription.
C9_Witness ==
  /\ DispatchDone
  /\ tick >= 2
  /\ registry # <<>>
  /\ \E t \in Tables :
        /\ t \notin RegistryTables
        /\ DOMAIN remote[t] # {}
        /\ t \notin requested
        /\ t \notin DOMAIN newObjects

\* C10: at most one run of onInterval is in flight, and the store is touched
\* only by steps of that run.
C10_OneRunInFlight ==
  /\ inFlight <= 1
  /\ pc # "idle" <=> inFlight = 1

\* C10 witness: a second run is dispatching after the first one has returned.
C10_Witness ==
  /\ tick >= 2
  /\ pc = "dispatch"
  /\ inFlight = 1
  /\ log # <<>>

\* The old snapshot of the run holds what the new one holds: the same tables,
\* the same record ids and, for each record, the same fields in the same listing.
SameSnapshot ==
  /\ oldObjects.defined
  /\ DOMAIN oldObjects.val = DOMAIN newObjects
  /\ \A t \in DOMAIN newObjects :
        /\ DOMAIN oldObjects.val[t] = DOMAIN newObjects[t]
        /\ \A id \in DOMAIN newObjects[t] :
              oldObjects.val[t][id].fields = newObjects[t][id].fields

\* C11: a run whose new snapshot holds what the stored one held has empty
\* additions, modifications and removals for every table and invokes no handler
\* for an added, a raw modified or a deleted record.
C11_SameSnapshotNoChange ==
  (pc \in {"reconcile", "dispatch"} /\ SameSnapshot) =>
    /\ diff.changeCount = 0
    /\ \A t \in DOMAIN newObjects :
          /\ diff.additions[t] = EmptyObject
          /\ diff.modifications[t] = EmptyObject
          /\ diff.removals[t] = EmptyObject
    /\ \A k \in DOMAIN log : log[k].group = "settled"

\* C11 witness: a later run reads again the records it stored, for a table with
\* a subscription for added or deleted records or for raw modifications, and
\* its dispatch ends.
C11_Witness ==
  /\ DispatchDone
  /\ SameSnapshot
  /\ \E i \in DOMAIN registry :
        /\ DOMAIN newObjects[registry[i].options.table] # {}
        /\ \/ registry[i].options.type # "RecordModified"
           \/ registry[i].options.fireWhileTyping

\* The ids of the subscriptions of a registry.
RegistryIds(reg) == {reg[i].id : i \in DOMAIN reg}

\* What a call of on() with a type it knows does to the registry: the
\* subscription is there under the id given, or under the id made of type, table
\* and connector id; the other subscriptions are kept; there is one per id.
RegisteredBy(in) ==
  /\ in[1] \in {"RecordAdded", "RecordModified", "RecordDeleted"}
  /\ LET id == IF in[4] = ""
               THEN "AIRTABLE/" \o in[1] \o "/" \o in[2] \o "/" \o "conn"
               ELSE in[4]
         ec == [id |-> id,
                options |-> [type |-> in[1], table |-> in[2],
                             fireWhileTyping |-> (in[3] = "true")]]
     IN  /\ \E i \in DOMAIN registry' : registry'[i] = ec
         /\ \A j \in DOMAIN registry :
               registry[j].id # id => \E i \in DOMAIN registry' : registry'[i] = registry[j]
         /\ RegistryIds(registry') = RegistryIds(registry) \cup {id}
         /\ Len(registry') = Cardinality(RegistryIds(registry'))

C13_BootstrapIffNothingPersisted ==
  pc = "reconcile" => (~modificationsInStore <=> ~storedModifications.defined)

\* The pending modifications of a table the call read (line 135).
PendingOf(t) == LastOf(prevModifications, t)

\* C14 as claimed: an id of this run's modifications that is pending with the
\* same fields is settled with this run's record and is not stored for the
\* next run.
C14_EqualFieldsSettle ==
  pc = "dispatch" =>
    \A t \in SeqToSet(tables) :
      \A id \in DOMAIN diff.modifications[t] \cap DOMAIN PendingOf(t) :
        PendingOf(t)[id].fields = diff.modifications[t][id].fields =>
          /\ id \in DOMAIN updatedModifications[t]
          /\ updatedModifications[t][id] = diff.modifications[t][id]
          /\ id \notin DOMAIN storedModifications.val[t]

\* C15: after a later call of getModificationsToUpdate, for every table of the
\* registry, the ids it settled and the ids it stored for the next run are
\* disjoint and are together the ids that were pending or are modified in this
\* run; the store holds this run's record for each id it keeps.
C15_SettledAndPendingPartition ==
  pc = "dispatch" =>
    /\ DOMAIN updatedModifications = SeqToSet(tables)
    /\ DOMAIN storedModifications.val = SeqToSet(tables)
    /\ \A t \in SeqToSet(tables) :
          LET settled == DOMAIN updatedModifications[t]
              next    == DOMAIN storedModifications.val[t]
          IN  /\ settled \cap next = {}
              /\ settled \cup next = DOMAIN PendingOf(t) \cup DOMAIN diff.modifications[t]
              /\ \A id \in next :
                    storedModifications.val[t][id] = diff.modifications[t][id]

\* C15 witness: of two pending ids of a table, one is not modified in this run
\* and is settled, the other is modified again and is kept for the next run.
C15_Witness ==
  /\ pc = "dispatch"
  /\ \E t \in SeqToSet(tables) :
        \E a, b \in DOMAIN PendingOf(t) :
          /\ a \in DOMAIN updatedModifications[t]
          /\ a \notin DOMAIN diff.modifications[t]
          /\ b \in DOMAIN diff.modifications[t]
          /\ b \in DOMAIN storedModifications.val[t]
          /\ b \notin DOMAIN updatedModifications[t]

\* C16 as claimed: a record handed to a handler as a settled modification is in
\* the new snapshot of the run with the fields handed over, and is not among
\* the removals of the run.
C16_SettledRecordIsCurrent ==
  \A k \in DOMAIN log :
    log[k].group = "settled" =>
      LET t  == log[k].table
          id == log[k].record.id
      IN  /\ t \in DOMAIN newObjects
          /\ id \in DOMAIN newObjects[t]
          /\ newObjects[t][id].fields = log[k].record.fields
          /\ ~IsModifiedIn(diff.removals, t, id)

\* The read of the table failed in this run before it had read a record.
FailedEmpty(t) == t \in failed /\ newObjects[t] = EmptyObject

\* C17: in a run where the read of a table fails before any record while the
\* old snapshot has records of the table, the removals of the table are all its
\* old records and every RecordDeleted subscription of the table gets one event
\* for each; in a run that reads the table in full while the old snapshot holds
\* it empty, as such a failure leaves it, the additions are all its records.
C17_FailedReadRemovesThenAdds ==
  pc \in {"reconcile", "dispatch"} =>
    \A t \in DOMAIN newObjects :
      ~NoOldTable(t) =>
        /\ (FailedEmpty(t) /\ oldObjects.val[t] # EmptyObject) =>
              /\ diff.removals[t] = oldObjects.val[t]
              /\ diff.additions[t] = EmptyObject
              /\ diff.modifications[t] = EmptyObject
              /\ DispatchDone =>
                    \A i \in DOMAIN registry :
                      (/\ registry[i].options.type = "RecordDeleted"
                       /\ registry[i].options.table = t) =>
                        \A id \in DOMAIN oldObjects.val[t] :
                          Cardinality({k \in Delivered(registry[i].id, t, id) :
                                         log[k].group = "deleted"}) = 1
        /\ (t \notin failed /\ oldObjects.val[t] = EmptyObject) =>
              /\ diff.additions[t] = newObjects[t]
              /\ diff.removals[t] = EmptyObject
              /\ diff.modifications[t] = EmptyObject

\* C17 witness: the base was never edited, so the empty old table is what a
\* failed read of the run before left; this run reads the table in full and has
\* all its records as additions.
C17_Witness ==
  /\ DispatchDone
  /\ edits = 0
  /\ \E t \in DOMAIN newObjects :
        /\ ~NoOldTable(t)
        /\ oldObjects.val[t] = EmptyObject
        /\ t \notin failed
        /\ DOMAIN newObjects[t] = DOMAIN remote[t]
        /\ DOMAIN diff.additions[t] = DOMAIN remote[t]
        /\ DOMAIN remote[t] # {}

\* C17, the failing run: a RecordDeleted handler was invoked for every old
\* record of a table whose read failed before any record.
C17_WitnessRemovals ==
  /\ DispatchDone
  /\ \E t \in DOMAIN newObjects :
        /\ FailedEmpty(t)
        /\ ~NoOldTable(t)
        /\ Cardinality(DOMAIN oldObjects.val[t]) >= 2
        /\ \A id \in DOMAIN oldObjects.val[t] :
              \E k \in DOMAIN log :
                log[k].group = "deleted" /\ log[k].table = t /\ log[k].record.id = id

\* Two field-maps hold the same names with the same values, in whatever order.
DeepEquals(f1, f2) == SeqToSet(f1) = SeqToSet(f2)

\* C18 as claimed: an id of both tables is a modification exactly when its two
\* field-maps are not deep-structurally equal, the order of the fields aside.
C18_ModifiedIffNotDeepEqual ==
  pc = "diffed" =>
    \A t \in DOMAIN newObjects :
      \A id \in DOMAIN newObjects[t] \cap DOMAIN oldObjects.val[t] :
        id \in DOMAIN diff.modifications[t] <=>
          ~DeepEquals(oldObjects.val[t][id].fields, newObjects[t][id].fields)

\* The group of events a subscription is registered for.
GroupOf(options) ==
  CASE options.type = "RecordAdded" -> "added"
    [] options.type = "RecordDeleted" -> "deleted"
    [] options.type = "RecordModified" /\ options.fireWhileTyping -> "raw"
    [] options.type = "RecordModified" /\ ~options.fireWhileTyping -> "settled"

\* The changed records of a table the run has for a group of events.
ChangedIn(g, t) ==
  LET m == CASE g = "added" -> diff.additions
             [] g = "deleted" -> diff.removals
             [] g = "raw" -> diff.modifications
             [] g = "settled" -> updatedModifications
  IN  IF t \in DOMAIN m THEN m[t] ELSE EmptyObject

\* C19: every invocation of a run is for a subscription of the table and of the
\* kind of the changed record it hands over; when the dispatch has ended, a
\* subscription has got one invocation for each changed record of its table and
\* kind, whatever its fireWhileTyping flag when the kind is added or deleted,
\* and none for a record of another table.
C19_HandlersMatchTableAndKind ==
  /\ \A k \in DOMAIN log :
        \E i \in DOMAIN registry :
          /\ registry[i].id = log[k].sub
          /\ registry[i].options.table = log[k].table
          /\ GroupOf(registry[i].options) = log[k].group
          /\ log[k].record.id \in DOMAIN ChangedIn(log[k].group, log[k].table)
          /\ log[k].record = ChangedIn(log[k].group, log[k].table)[log[k].record.id]
  /\ DispatchDone =>
        \A i \in DOMAIN registry :
          LET t       == registry[i].options.table
              changed == DOMAIN ChangedIn(GroupOf(registry[i].options), t)
              mine    == {k \in DOMAIN log : log[k].sub = registry[i].id}
          IN  /\ \A k \in mine : log[k].table = t /\ log[k].record.id \in changed
              /\ \A id \in changed :
                    Cardinality({k \in mine : log[k].record.id = id}) = 1

\* C19 witness: records of T1 and of T2 changed in the run, both tables have a
\* subscription, and a RecordDeleted subscription with fireWhileTyping set got
\* the removal of its table.
C19_Witness ==
  /\ DispatchDone
  /\ \E j, k \in DOMAIN log, i \in DOMAIN registry :
        /\ log[j].table = "T1"
        /\ log[k].table = "T2"
        /\ log[k].group = "deleted"
        /\ registry[i].id = log[k].sub
        /\ registry[i].options.fireWhileTyping

\* C20 as claimed: a run whose tables include one that was registered after
\* its fetch had taken the subscriptions, and so was not read, does not end in
\* an error.
C20_LateSubscriptionRunCompletes ==
  (SeqToSet(tables) \ requested # {}) => pc # "failed"

====
